---- MODULE Spec2Model ----
(***************************************************************************)
(* A model of the trending aggregation pipeline of tiktok_api_trending.py: *)
(* the merger (dedupe_merge), the seed store (read_lines,                  *)
(* write_lines_append_dedup), the collectors (collect_trending,            *)
(* collect_accounts, collect_hashtags, collect_sounds), the seed expander  *)
(* (seed_from_trending) and the phase order of main.                       *)
(*                                                                         *)
(* Text is a sequence of one-character strings (<<"a","b">> is "ab"); a    *)
(* text that may be None is only ever tested for truth by the code, so     *)
(* None and "" are both <<>>. A provenance tag is the text after its       *)
(* prefix: <<"trending">>, <<"account:", "a", "n", "n">>. Opaque values    *)
(* the code never looks inside (video ids, image urls, descriptions) are   *)
(* TLA+ strings; there "None" stands for None and "" for the empty string. *)
(***************************************************************************)
EXTENDS Integers, Sequences, FiniteSets, TLC

VARIABLES
    \* ---- dedupe_merge
    input,      \* the argument `rows` as it was passed (never written)
    rows,       \* the row objects, in list order; the merge mutates them in place
    by_id,      \* the dict by_id: positions of the canonical rows, insertion order
    mi,         \* position of the for loop over rows (Len(rows)+1: returned)
    \* ---- seed store
    file,       \* the seed file's characters (a missing file is the empty one)
    entries0,   \* read_lines(file) before the last call
    file0,      \* the file before the last call
    items,      \* the argument new_items of the last call
    offered,    \* the keys of the items passed to the calls before the last one
    ret,        \* the value the last call returned
    calls,      \* number of calls made
    \* ---- collect_trending
    target,     \* the argument target
    seen,       \* the set seen
    t_rows,     \* the list rows
    stall,      \* the counter stall
    t_pc,       \* "loop" | "sleep" | "done"
    idle,       \* consecutive batch pulls so far that brought no unseen id
    lastNew,    \* number of new rows of the last batch
    result,     \* the returned list
    \* ---- collect_accounts / collect_hashtags / collect_sounds
    kind,       \* which collector runs
    units,      \* the argument list of units
    cap,        \* the argument per_user / per_tag / per_sound
    ui,         \* position of the for loop over units
    c_rows,     \* the list rows
    log,        \* per unit processed: what the platform did and what was kept
    c_pc,       \* "run" | "returned" | "raised"
    \* ---- main
    pc,         \* the phase main is in
    files,      \* the four seed files
    files0,     \* the seed files as the run found them
    trending_rows,
    later_rows, \* account_rows, hashtag_rows, sound_rows
    seeds,      \* the result of seed_from_trending
    added,      \* the counts the five appends returned
    lists,      \* all_accounts, all_tags, all_sounds
    hi,         \* position of the loop of collect_sound_info
    sound_meta, \* the dict sound_meta: its values, insertion order
    lookups,    \* the sound info lookups made so far: id and answer
    merged,     \* the list merged
    output,     \* the snapshot document
    fetched,    \* the units fetched so far in the run, in order
    trace,      \* the phases entered so far, in order
    \* ---- one call of a function
    fn,         \* the function called
    args,       \* its arguments
    returned,   \* what it returned, once it has
    \* ---- the calls to the platform
    last_delay, \* what followed the last platform call: nothing yet, or a sleep
    unpaced     \* the platform calls issued with no sleep since the call before

mergeVars    == <<input, rows, by_id, mi>>
seedVars     == <<file, entries0, file0, items, offered, ret, calls>>
trendingVars == <<target, seen, t_rows, stall, t_pc, idle, lastNew, result>>
collectVars  == <<kind, units, cap, ui, c_rows, log, c_pc>>
mainVars     == <<pc, files, files0, trending_rows, later_rows, seeds, added, lists, hi,
                 sound_meta, lookups, merged, output, fetched, trace>>
callVars     == <<fn, args, returned>>
paceVars     == <<last_delay, unpaced>>
vars == <<mergeVars, seedVars, trendingVars, collectVars, mainVars, callVars, paceVars>>

-----------------------------------------------------------------------------
(* Python values *)

None == "None"

\* bool(x) of a string-or-None value
Truthy(x) == x # None /\ x # ""

\* x or y
Or(x, y) == IF Truthy(x) THEN x ELSE y

Range(s) == {s[i] : i \in DOMAIN s}

NoDup(s) == \A i, j \in DOMAIN s : s[i] = s[j] => i = j

\* s[:n]
Take(s, n) == SubSeq(s, 1, IF n < Len(s) THEN n ELSE Len(s))

RECURSIVE SeqOfSet(_)
SeqOfSet(S) == IF S = {} THEN <<>>
               ELSE LET x == CHOOSE y \in S : TRUE IN <<x>> \o SeqOfSet(S \ {x})

\* all sequences over S of length 0..n
RECURSIVE SeqsUpTo(_, _)
SeqsUpTo(S, n) ==
    IF n = 0 THEN {<<>>}
    ELSE LET shorter == SeqsUpTo(S, n - 1)
         IN shorter \cup {Append(s, x) : s \in {t \in shorter : Len(t) = n - 1}, x \in S}

-----------------------------------------------------------------------------
(* Text *)

Whitespace == {" ", "\n", "\t"}

UpperLetters ==
    <<"A", "B", "C", "D", "E", "F", "G", "H", "I", "J", "K", "L", "M",
      "N", "O", "P", "Q", "R", "S", "T", "U", "V", "W", "X", "Y", "Z">>
LowerLetters ==
    <<"a", "b", "c", "d", "e", "f", "g", "h", "i", "j", "k", "l", "m",
      "n", "o", "p", "q", "r", "s", "t", "u", "v", "w", "x", "y", "z">>
Digits == <<"0", "1", "2", "3", "4", "5", "6", "7", "8", "9">>

\* one character of str.lower() (ASCII)
LowerChar(c) ==
    IF \E i \in DOMAIN UpperLetters : UpperLetters[i] = c
    THEN LowerLetters[CHOOSE i \in DOMAIN UpperLetters : UpperLetters[i] = c]
    ELSE c

\* str.lower()
lower(s) == [i \in DOMAIN s |-> LowerChar(s[i])]

\* str.lstrip() / str.lstrip(chars): drop the leading characters that are in cs
RECURSIVE lstrip(_, _)
lstrip(s, cs) == IF s # <<>> /\ Head(s) \in cs THEN lstrip(Tail(s), cs) ELSE s

RECURSIVE rstrip(_, _)
rstrip(s, cs) ==
    IF s # <<>> /\ s[Len(s)] \in cs THEN rstrip(SubSeq(s, 1, Len(s) - 1), cs) ELSE s

\* str.strip()
strip(s) == rstrip(lstrip(s, Whitespace), Whitespace)

\* concatenation of a sequence of sequences
RECURSIVE Flatten(_)
Flatten(ss) == IF ss = <<>> THEN <<>> ELSE Head(ss) \o Flatten(Tail(ss))

\* order-preserving dedup that also drops empty text (lines 118-123, 135-140)
RECURSIVE DedupTruthy(_, _)
DedupTruthy(s, seenSoFar) ==
    IF s = <<>> THEN <<>>
    ELSE IF Head(s) # <<>> /\ Head(s) \notin seenSoFar
         THEN <<Head(s)>> \o DedupTruthy(Tail(s), seenSoFar \cup {Head(s)})
         ELSE DedupTruthy(Tail(s), seenSoFar)

-----------------------------------------------------------------------------
(* Extractor *)

\* a video count that is None
NoCount == -1

INCLUDE_RAW == FALSE
INCLUDE_RAW_THUMBS == TRUE

\* an image object of the payload: a dict with a url list, or something else
NoImage == [isdict |-> FALSE, url_list |-> <<>>, urlList |-> <<>>]
Image(urls) == [isdict |-> TRUE, url_list |-> urls, urlList |-> <<>>]
ImageCamel(urls) == [isdict |-> TRUE, url_list |-> <<>>, urlList |-> urls]

\* `x or y` of two lists
OrList(x, y) == IF x # <<>> THEN x ELSE y

_first_url(img_obj) ==
    IF ~img_obj.isdict THEN None
    ELSE LET urls == OrList(img_obj.url_list, OrList(img_obj.urlList, <<>>))
         IN IF urls # <<>> THEN urls[1] ELSE None

slim_raw_thumbs(video_obj) ==
    [raw |-> [cover |-> video_obj.cover, avatarThumb |-> video_obj.avatarThumb],
     cover_url |-> _first_url(video_obj.cover),
     author_avatar_url |-> _first_url(video_obj.avatarThumb)]

\* None (and "") is <<>>; the url is the sequence of its parts
build_url(username, vid) ==
    IF username = <<>> \/ ~Truthy(vid) THEN <<>>
    ELSE <<"https://www.tiktok.com/@", username, "/video/", vid>>

\* hashtagName of every textExtra span, then title of every challenge,
\* lowercased, falsy names dropped, deduplicated in first-seen order
extract_hashtags(raw) ==
    LET tags == [i \in DOMAIN raw.textExtra |->
                    IF raw.textExtra[i] # <<>> THEN lower(raw.textExtra[i]) ELSE <<>>]
                \o [i \in DOMAIN raw.challenges |->
                    IF raw.challenges[i] # <<>> THEN lower(raw.challenges[i]) ELSE <<>>]
    IN DedupTruthy(tags, {})

\* every word of every block, stripped and lowercased, deduplicated
extract_suggest_words(raw) ==
    LET out == [i \in DOMAIN raw.suggest |->
                    IF raw.suggest[i] # <<>> THEN lower(strip(raw.suggest[i])) ELSE <<>>]
    IN DedupTruthy(out, {})

\* `x or y` of two counts (None, a missing key and 0 are all falsy: 0)
OrNum(x, y) == IF x # 0 THEN x ELSE y

\* Numbers that the code holds as floats are exact fractions here.
RECURSIVE GCD(_, _)
GCD(a, b) == IF b = 0 THEN a ELSE GCD(b, a % b)

\* fractions are kept in lowest terms
Frac(n, d) == LET g == GCD(n, d) IN [num |-> n \div g, den |-> d \div g]
FracAdd(a, b) == Frac(a.num * b.den + b.num * a.den, a.den * b.den)
FracMul(a, k) == Frac(a.num * k, a.den)

\* a stat that float() rejects (a word, a list): truthy, no number
NonNumeric == -2

\* safe_ratio that divides by 1 when there are no views
safe_ratio_ViewsAtLeastOne(n, d) ==
    IF n = NonNumeric \/ d = NonNumeric THEN Frac(0, 1)
    ELSE IF d > 0 THEN Frac(n, d) ELSE Frac(n, 1)

\* safe_ratio of two stats: float() of a non-number raises, which is caught
safe_ratio(n, d) ==
    IF n = NonNumeric \/ d = NonNumeric THEN Frac(0, 1)
    ELSE IF d > 0 THEN Frac(n, d) ELSE Frac(0, 1)

\* The row dict. `keys` holds which of the keys that the code tests with
\* `in`, pops or adds later are present; r.get(k) of an absent key is None.
extract_video(data, source) ==
    LET vid      == Or(data.id, Or(data.itemId, data.aweme_id))
        username == data.uniqueId
        thumbs   == slim_raw_thumbs(data)
        withThumbs == ~INCLUDE_RAW /\ INCLUDE_RAW_THUMBS
        plays    == OrNum(data.stats.playCount, OrNum(data.stats.viewCount, 0))
        likes    == OrNum(data.stats.diggCount, OrNum(data.stats.likeCount, 0))
        comments == OrNum(data.stats.commentCount, 0)
        shares   == OrNum(data.stats.shareCount, 0)
        hashtags == extract_hashtags(data)
        suggest_words == extract_suggest_words(data)
    IN [id |-> vid,
        url |-> build_url(username, vid),
        source |-> source,
        sources |-> <<>>,
        desc |-> data.desc,
        author |-> username,
        stats |-> [views |-> plays, likes |-> likes, comments |-> comments,
                   shares |-> shares],
        hashtags |-> hashtags,
        suggest_words |-> suggest_words,
        music |-> data.music_id,
        video_count |-> NoCount,
        score_base |->
            FracAdd(FracAdd(FracMul(safe_ratio(shares, plays), 4),
                            FracAdd(FracMul(safe_ratio(comments, plays), 3),
                                    FracMul(safe_ratio(likes, plays), 1))),
                    Frac((IF suggest_words # <<>> THEN 2 ELSE 0)
                         + (IF data.music_id # <<>> THEN 1 ELSE 0), 1)),
        score |-> 0,
        raw |-> thumbs.raw,
        cover_url |-> IF withThumbs THEN thumbs.cover_url ELSE None,
        author_avatar_url |-> IF withThumbs THEN thumbs.author_avatar_url ELSE None,
        keys |-> {"source"} \cup (IF INCLUDE_RAW \/ INCLUDE_RAW_THUMBS THEN {"raw"} ELSE {})
                 \cup (IF withThumbs THEN {"cover_url", "author_avatar_url"} ELSE {})]

\* d.get(k) for the keys that may be absent
Get(d, k) == IF k \in d.keys THEN d[k] ELSE None
GetSource(d) == IF "source" \in d.keys THEN d.source ELSE <<>>
GetSources(d) == IF "sources" \in d.keys THEN d.sources ELSE <<>>

-----------------------------------------------------------------------------
(* Merger *)

\* Lookup that never finds the key: every row is taken as a first sighting
Lookup_NeverFound(heap, byid, vid) == 0

\* the position in by_id of the canonical row of vid, 0 when vid is not a key
Lookup(heap, byid, vid) ==
    IF \E k \in DOMAIN byid : heap[byid[k]].id = vid
    THEN byid[CHOOSE k \in DOMAIN byid : heap[byid[k]].id = vid]
    ELSE 0

\* AddSource without the `s2 not in srcs` test
AddSource_NoMembershipTest(srcs, s2) ==
    IF s2 # <<>> THEN Append(srcs, s2) ELSE srcs

\* lines 351-353: append the new tag unless it is falsy or already listed
AddSource(srcs, s2) ==
    IF s2 # <<>> /\ s2 \notin Range(srcs) THEN Append(srcs, s2) ELSE srcs

\* FillThumbs without the `existing.get(...) is None` tests
FillThumbs_Overwrites(existing, r) ==
    LET e2 == IF Truthy(Get(r, "cover_url"))
              THEN [existing EXCEPT !.cover_url = r.cover_url, !.keys = @ \cup {"cover_url"}]
              ELSE existing
    IN IF Truthy(Get(r, "author_avatar_url"))
       THEN [e2 EXCEPT !.author_avatar_url = r.author_avatar_url,
                       !.keys = @ \cup {"author_avatar_url"}]
       ELSE e2

\* lines 355-361: fill the thumbnails that are missing in the existing record
FillThumbs(existing, r) ==
    LET e1 == IF "raw" \notin existing.keys /\ "raw" \in r.keys
              THEN [existing EXCEPT !.raw = r.raw, !.keys = @ \cup {"raw"}]
              ELSE existing
        e2 == IF Get(e1, "cover_url") = None /\ Truthy(Get(r, "cover_url"))
              THEN [e1 EXCEPT !.cover_url = r.cover_url, !.keys = @ \cup {"cover_url"}]
              ELSE e1
        e3 == IF Get(e2, "author_avatar_url") = None /\ Truthy(Get(r, "author_avatar_url"))
              THEN [e2 EXCEPT !.author_avatar_url = r.author_avatar_url,
                              !.keys = @ \cup {"author_avatar_url"}]
              ELSE e2
    IN e3

\* ToSources that starts the list empty instead of from the single source
ToSources_DropsSource(existing) ==
    IF GetSources(existing) # <<>> THEN existing
    ELSE [existing EXCEPT !.sources = <<>>,
                          !.source = <<>>,
                          !.keys = (@ \ {"source"}) \cup {"sources"}]

\* lines 342-349: the first collision turns the single source into a list
ToSources(existing) ==
    IF GetSources(existing) # <<>> THEN existing
    ELSE LET s == GetSource(existing)
         IN [existing EXCEPT !.sources = IF s # <<>> THEN <<s>> ELSE <<>>,
                             !.source = <<>>,
                             !.keys = (@ \ {"source"}) \cup {"sources"}]

\* One iteration of the for loop (lines 334-361) on the row object at
\* position ref. st.heap are the row objects (mutated in place), st.by_id
\* the dict. A row that is its own canonical record (the same object listed
\* twice) is read after the mutation, as the code reads it.
MergeRow(st, ref) ==
    LET vid == st.heap[ref].id
        e   == Lookup(st.heap, st.by_id, vid)
    IN IF ~Truthy(vid) THEN st
       ELSE IF e = 0 THEN [st EXCEPT !.by_id = Append(@, ref)]
       ELSE LET heap1 == [st.heap EXCEPT ![e] = ToSources(@)]
                r     == heap1[ref]
                heap2 == [heap1 EXCEPT ![e].sources = AddSource(@, GetSource(r))]
                heap3 == [heap2 EXCEPT ![e] = FillThumbs(@, heap2[ref])]
            IN [st EXCEPT !.heap = heap3]

RECURSIVE MergeFold(_, _)
MergeFold(st, refs) ==
    IF refs = <<>> THEN st ELSE MergeFold(MergeRow(st, Head(refs)), Tail(refs))

\* dedupe_merge on the row objects `heap`, listed in the order `refs` (a
\* position may be listed twice: the same object twice in the list)
dedupe_merge(heap, refs) ==
    LET st == MergeFold([heap |-> heap, by_id |-> <<>>], refs)
    IN [i \in DOMAIN st.by_id |-> st.heap[st.by_id[i]]]


-----------------------------------------------------------------------------
(* Seed store *)

\* position of the first newline of s, 0 if there is none
FirstNewline(s) ==
    IF \E k \in DOMAIN s : s[k] = "\n"
    THEN CHOOSE k \in DOMAIN s : s[k] = "\n" /\ \A j \in 1..(k - 1) : s[j] # "\n"
    ELSE 0

\* `for line in f`: the lines of the file, each with its newline; text after
\* the last newline is a line too
RECURSIVE FileLines(_)
FileLines(s) ==
    IF s = <<>> THEN <<>>
    ELSE LET k == FirstNewline(s)
         IN IF k = 0 THEN <<s>>
            ELSE <<SubSeq(s, 1, k)>> \o FileLines(SubSeq(s, k + 1, Len(s)))

\* lines 70-74 on the lines of the file
RECURSIVE KeepEntries(_)
KeepEntries(ls) ==
    IF ls = <<>> THEN <<>>
    ELSE LET t == strip(Head(ls))
         IN (IF t = <<>> \/ t[1] = "#" THEN <<>> ELSE <<t>>) \o KeepEntries(Tail(ls))

\* read_lines of a file with content f
read_lines(f) == KeepEntries(FileLines(f))

\* lines 82-89: the items to add, given the keys already there
RECURSIVE ToAdd(_, _)
ToAdd(new_items, existing) ==
    IF new_items = <<>> THEN <<>>
    ELSE LET t   == strip(Head(new_items))
             key == lower(t)
         IN IF t = <<>> THEN ToAdd(Tail(new_items), existing)
            ELSE IF key \notin existing
                 THEN <<t>> \o ToAdd(Tail(new_items), existing \cup {key})
                 ELSE ToAdd(Tail(new_items), existing)

\* lines 94-96: every item followed by a newline
RECURSIVE Written(_)
Written(to_add) ==
    IF to_add = <<>> THEN <<>> ELSE Head(to_add) \o <<"\n">> \o Written(Tail(to_add))

\* write_lines_append_dedup on a file with content f: the new content and
\* the returned count
write_lines_append_dedup(f, new_items) ==
    LET existing == {lower(strip(x)) : x \in Range(read_lines(f))}
        to_add   == ToAdd(new_items, existing)
    IN IF to_add = <<>> THEN [file |-> f, ret |-> 0]
       ELSE [file |-> f \o Written(to_add), ret |-> Len(to_add)]

-----------------------------------------------------------------------------
(* Collectors *)

\* what the platform iterators yield: an object whose as_dict is a dict, or
\* one whose as_dict is something else (or missing)
Video(d) == [isdict |-> TRUE, as_dict |-> d]
NotADict == [isdict |-> FALSE, as_dict |-> <<>>]

\* line 447
VideoId(d) == Or(d.id, Or(d.itemId, d.aweme_id))

\* lines 442-451: the rows of the videos of the batch whose id is not yet
\* seen, and the grown set seen
RECURSIVE NewRows(_, _)
NewRows(batch, seenSoFar) ==
    IF batch = <<>> THEN [new_rows |-> <<>>, seen |-> seenSoFar]
    ELSE LET v == Head(batch)
         IN IF ~v.isdict THEN NewRows(Tail(batch), seenSoFar)
            ELSE LET vid == VideoId(v.as_dict)
                 IN IF ~Truthy(vid) \/ vid \in seenSoFar
                    THEN NewRows(Tail(batch), seenSoFar)
                    ELSE LET rest == NewRows(Tail(batch), seenSoFar \cup {vid})
                         IN [new_rows |-> <<extract_video(v.as_dict, <<"trending">>)>>
                                          \o rest.new_rows,
                             seen |-> rest.seen]

\* the threshold of line 457
StallLimit == 6

\* StallAfter that forgets to reset the counter
StallAfter_NoReset(n, new_rows) == IF new_rows = <<>> THEN n + 1 ELSE n

\* lines 455-460: the counter after a batch
StallAfter(n, new_rows) == IF new_rows = <<>> THEN n + 1 ELSE 0

\* lines 470, 487, 504: the unit as it is queried
NormalizeUnit(k, u) ==
    CASE k = "account" -> strip(lstrip(u, {"@"}))
      [] k = "hashtag" -> lstrip(strip(u), {"#"})
      [] k = "sound"   -> strip(u)

\* lines 477, 494, 511: the provenance tag of a unit's rows
SourceTag(k, u) ==
    CASE k = "account" -> <<"account:">> \o u
      [] k = "hashtag" -> <<"hashtag:">> \o u
      [] k = "sound"   -> <<"sound:">> \o u

\* what can go wrong in a fetch; each is an Exception
FetchErrors == {"platform error"}

\* an except clause that only names the platform's timeout
Caught_OnlyTimeout(error) == error = "timeout"

\* lines 478, 495, 512: `except Exception` catches every fetch error
Caught(error) == error \in FetchErrors

\* lines 474-477: a row for every yielded object whose as_dict is a dict
RECURSIVE UnitRows(_, _)
UnitRows(yielded, tag) ==
    IF yielded = <<>> THEN <<>>
    ELSE (IF Head(yielded).isdict THEN <<extract_video(Head(yielded).as_dict, tag)>>
          ELSE <<>>) \o UnitRows(Tail(yielded), tag)

-----------------------------------------------------------------------------
(* Seed expander *)

MIN_HASHTAG_LEN == 3
ADD_TOP_HASHTAGS == 100
ADD_TOP_CREATORS == 100
ADD_TOP_SUGGEST_WORDS == 30
ADD_TOP_SOUNDS == 100

\* the shortest suggestion phrase that is counted (line 560)
MinSuggestLen == 4

\* a cleaning that removes nothing
KeepAlnumSpace_KeepsAll(p) == p

\* re.sub(r"[^a-z0-9\s]+", "", p)
KeepAlnumSpace(p) ==
    SelectSeq(p, LAMBDA c : c \in Range(LowerLetters) \cup Range(Digits) \cup Whitespace)

\* re.sub(r"\s+", " ", cleaned): every run of whitespace becomes one space
RECURSIVE CollapseSpace(_)
CollapseSpace(p) ==
    IF p = <<>> THEN <<>>
    ELSE IF Head(p) \in Whitespace
         THEN <<" ">> \o CollapseSpace(lstrip(p, Whitespace))
         ELSE <<Head(p)>> \o CollapseSpace(Tail(p))

\* lines 167-172: order-preserving dedup, empty text dropped
suggest_phrase_to_hashtag_candidates(phrase) ==
    LET p == lower(strip(phrase))
        cleaned == strip(CollapseSpace(KeepAlnumSpace(p)))
        joined == SelectSeq(cleaned, LAMBDA c : c # " ")
        underscored == [i \in DOMAIN cleaned |-> IF cleaned[i] = " " THEN "_" ELSE cleaned[i]]
        out == (IF Len(joined) >= MIN_HASHTAG_LEN THEN <<joined>> ELSE <<>>)
               \o (IF Len(underscored) >= MIN_HASHTAG_LEN THEN <<underscored>> ELSE <<>>)
    IN IF p = <<>> \/ cleaned = <<>> THEN <<>> ELSE DedupTruthy(out, {})

\* a frequency dict built by `freq[k] = freq.get(k, 0) + 1` over ks: its
\* items, in insertion order
RECURSIVE CountInto(_, _)
CountInto(table, ks) ==
    IF ks = <<>> THEN table
    ELSE LET k == Head(ks)
             t == IF \E i \in DOMAIN table : table[i].key = k
                  THEN [i \in DOMAIN table |->
                           IF table[i].key = k
                           THEN [key |-> k, n |-> table[i].n + 1] ELSE table[i]]
                  ELSE Append(table, [key |-> k, n |-> 1])
         IN CountInto(t, Tail(ks))

\* sorted(items, key=count, reverse=True): stable, ties keep their order
RECURSIVE SortByCountDesc(_)
SortByCountDesc(table) ==
    IF table = <<>> THEN <<>>
    ELSE LET top == CHOOSE i \in DOMAIN table :
                        /\ \A j \in DOMAIN table : table[j].n <= table[i].n
                        /\ \A j \in 1..(i - 1) : table[j].n < table[i].n
         IN <<table[top]>>
            \o SortByCountDesc(SubSeq(table, 1, top - 1) \o SubSeq(table, top + 1, Len(table)))

\* the keys of the n most frequent entries
TopKeys(table, n) ==
    LET sorted == Take(SortByCountDesc(table), n)
    IN [i \in DOMAIN sorted |-> sorted[i].key]

\* lines 558-561 for one row: its phrases stripped and lowercased, the
\* short ones dropped
CountedSuggest(r) ==
    SelectSeq([i \in DOMAIN r.suggest_words |-> lower(strip(r.suggest_words[i]))],
              LAMBDA w : w # <<>> /\ Len(w) >= MinSuggestLen)

\* seed_from_trending
seed_from_trending(rs) ==
    LET hashtag_keys ==
            Flatten([i \in DOMAIN rs |->
                        SelectSeq(rs[i].hashtags, LAMBDA h : Len(h) >= MIN_HASHTAG_LEN)])
        creator_keys ==
            Flatten([i \in DOMAIN rs |->
                        IF rs[i].author # <<>> THEN <<lower(rs[i].author)>> ELSE <<>>])
        suggest_keys == Flatten([i \in DOMAIN rs |-> CountedSuggest(rs[i])])
        sound_keys ==
            Flatten([i \in DOMAIN rs |->
                        IF rs[i].music # <<>> THEN <<rs[i].music>> ELSE <<>>])
    IN [hashtags |-> TopKeys(CountInto(<<>>, hashtag_keys), ADD_TOP_HASHTAGS),
        creators |-> TopKeys(CountInto(<<>>, creator_keys), ADD_TOP_CREATORS),
        suggest_words |-> TopKeys(CountInto(<<>>, suggest_keys), ADD_TOP_SUGGEST_WORDS),
        sounds |-> TopKeys(CountInto(<<>>, sound_keys), ADD_TOP_SOUNDS)]

-----------------------------------------------------------------------------
(* Sound hydrator *)

\* order of two characters, of two texts (sorted() on strings)
CharOrder == <<" ", "#">> \o Digits \o <<"@">> \o UpperLetters \o <<"_">> \o LowerLetters
CharRank(c) == CHOOSE i \in DOMAIN CharOrder : CharOrder[i] = c

RECURSIVE TextLess(_, _)
TextLess(a, b) ==
    IF b = <<>> THEN FALSE
    ELSE IF a = <<>> THEN TRUE
    ELSE IF Head(a) = Head(b) THEN TextLess(Tail(a), Tail(b))
    ELSE CharRank(Head(a)) < CharRank(Head(b))

\* sorted(S) of a set of texts
RECURSIVE SortedTexts(_)
SortedTexts(S) ==
    IF S = {} THEN <<>>
    ELSE LET least == CHOOSE x \in S : \A y \in S \ {x} : TextLess(x, y)
         IN <<least>> \o SortedTexts(S \ {least})

\* line 637: the distinct sound ids of the trending rows, sorted
SoundIds(rs) == SortedTexts({rs[i].music : i \in {k \in DOMAIN rs : rs[k].music # <<>>}})

\* what a sound info lookup may give: an exception, something that is no
\* dict (None included), or a dict, here with its top-level videoCount
NoInfo == [raises |-> FALSE, isdict |-> FALSE, empty |-> TRUE, videoCount |-> NoCount]
InfoRaises == [raises |-> TRUE, isdict |-> FALSE, empty |-> TRUE, videoCount |-> NoCount]
Info(n) == [raises |-> FALSE, isdict |-> TRUE, empty |-> FALSE, videoCount |-> n]

\* the dict {}
EmptyInfo == [raises |-> FALSE, isdict |-> TRUE, empty |-> TRUE, videoCount |-> NoCount]

\* extract_sound_video_count, for the one path these payloads fill
extract_sound_video_count(info) == info.videoCount

\* lines 520-534 for one sound id: sound_meta after the lookup
SoundInfoStep(meta, sid, lookup) ==
    IF sid = <<>> \/ \E i \in DOMAIN meta : meta[i].id = sid THEN meta
    ELSE IF ~lookup.raises /\ lookup.isdict
         THEN Append(meta, [id |-> sid, video_count |-> extract_sound_video_count(lookup)])
         ELSE meta

\* the comparison with <= in place of <
should_flag_emerging_AtMost(sound_info, threshold) ==
    IF sound_info.video_count = NoCount THEN FALSE
    ELSE sound_info.video_count <= threshold

should_flag_emerging(sound_info, threshold) ==
    IF sound_info.video_count = NoCount THEN FALSE
    ELSE sound_info.video_count < threshold

\* the threshold of line 655
EmergingThreshold == 1000

\* lines 652-656
EmergingSounds(meta) ==
    SelectSeq(meta, LAMBDA x : should_flag_emerging(x, EmergingThreshold))

-----------------------------------------------------------------------------
(* Scorer: scores are in ten-thousandths *)

\* round(x, 4) of the fraction x, in ten-thousandths (ties to even)
Round4(x) ==
    LET n == x.num * 10000
        q == n \div x.den
        r == n % x.den
    IN IF 2 * r < x.den THEN q
       ELSE IF 2 * r > x.den THEN q + 1
       ELSE IF q % 2 = 0 THEN q ELSE q + 1

Min(a, b) == IF a < b THEN a ELSE b

\* a table in which every hashtag counts once
HashtagFreq_OwnRowOnly(rs, h) == 1

\* number of rows that list hashtag h / cite sound id sid
HashtagFreq(rs, h) == Cardinality({i \in DOMAIN rs : h \in Range(rs[i].hashtags)})
SoundFreq(rs, sid) == Cardinality({i \in DOMAIN rs : rs[i].music = sid})

\* the sum of the halves without the cap
RareBonus_Uncapped(rs, r) ==
    Cardinality({k \in DOMAIN r.hashtags : HashtagFreq(rs, r.hashtags[k]) <= 2})

\* lines 380-384, in halves
RareBonus(rs, r) ==
    Min(6, Cardinality({k \in DOMAIN r.hashtags : HashtagFreq(rs, r.hashtags[k]) <= 2}))

\* lines 378-394 for one row
PoolScore(rs, r, big_accounts) ==
    LET bonus == Frac(RareBonus(rs, r), 2)
        sound == IF r.music # <<>> /\ SoundFreq(rs, r.music) <= 2 THEN 1 ELSE 0
        au    == lower(r.author)
        big   == IF au # <<>> /\ au \in big_accounts THEN 1 ELSE 0
    IN Round4(FracAdd(FracAdd(r.score_base, bonus), Frac(sound + big, 1)))

add_pool_level_scores(rs, big_accounts) ==
    [i \in DOMAIN rs |->
        [rs[i] EXCEPT !.score = PoolScore(rs, rs[i], big_accounts),
                      !.keys = @ \cup {"score"}]]

\* the rows left in the order of the merge
SortByScoreDesc_NoSort(rs) == rs

\* rows.sort(key=score, reverse=True): stable
RECURSIVE SortByScoreDesc(_)
SortByScoreDesc(rs) ==
    IF rs = <<>> THEN <<>>
    ELSE LET top == CHOOSE i \in DOMAIN rs :
                        /\ \A j \in DOMAIN rs : rs[j].score <= rs[i].score
                        /\ \A j \in 1..(i - 1) : rs[j].score < rs[i].score
         IN <<rs[top]>>
            \o SortByScoreDesc(SubSeq(rs, 1, top - 1) \o SubSeq(rs, top + 1, Len(rs)))

\* lines 642-645: the hydrated count of the row's sound, if there is one
WithVideoCount(r, meta) ==
    IF r.music # <<>> /\ \E i \in DOMAIN meta : meta[i].id = r.music
    THEN [r EXCEPT !.video_count =
                       meta[CHOOSE i \in DOMAIN meta : meta[i].id = r.music].video_count,
                   !.keys = @ \cup {"video_count"}]
    ELSE r

-----------------------------------------------------------------------------
(* The merger as a state machine: one step per iteration of the loop *)

MaxRows == 3

Stats(plays, views, likes, comments, shares) ==
    [playCount |-> plays, viewCount |-> views, diggCount |-> likes, likeCount |-> 0,
     commentCount |-> comments, shareCount |-> shares]

Payload(id, itemId, aweme_id, desc, cover, avatar) ==
    [id |-> id, itemId |-> itemId, aweme_id |-> aweme_id, desc |-> desc,
     uniqueId |-> <<"a", "n", "n">>, cover |-> cover, avatarThumb |-> avatar,
     stats |-> Stats(100, 0, 10, 2, 1),
     textExtra |-> << <<"F", "y", "p">> >>, challenges |-> <<>>,
     suggest |-> <<>>, music_id |-> <<"7">>]

\* the payloads the platform returns in this model: three sightings of v1
\* with different fields, two of v2, and one without any id
MergePayloads ==
    { Payload("v1", None, None, "d1", Image(<<"c1">>), NoImage),
      Payload("v1", "x9", None, "d2", Image(<<"c2">>), Image(<<"a2">>)),
      Payload(None, "v1", None, "d3", NoImage, ImageCamel(<<"a3">>)),
      Payload("v2", None, None, "d4", Image(<<>>), Image(<<"">>)),
      Payload(None, "", "v2", "d5", Image(<<"c5">>), Image(<<"a5">>)),
      Payload(None, None, "", "d6", Image(<<"c6">>), NoImage) }

MergeTags == {<<"trending">>, <<"account:", "a", "n", "n">>}

MergeInputs == {extract_video(d, s) : d \in MergePayloads, s \in MergeTags}

SeedIdle ==
    /\ file = <<>> /\ entries0 = <<>> /\ file0 = <<>> /\ items = <<>>
    /\ offered = {} /\ ret = 0 /\ calls = 0

TrendingIdle ==
    /\ target = 0 /\ seen = {} /\ t_rows = <<>> /\ stall = 0 /\ t_pc = "idle"
    /\ idle = 0 /\ lastNew = 0 /\ result = <<>>

CollectIdle ==
    /\ kind = "none" /\ units = <<>> /\ cap = 0 /\ ui = 1 /\ c_rows = <<>>
    /\ log = <<>> /\ c_pc = "idle"

MainIdle ==
    /\ pc = "idle" /\ files = <<>> /\ files0 = <<>> /\ trending_rows = <<>>
    /\ later_rows = <<>> /\ seeds = <<>> /\ added = <<>> /\ lists = <<>> /\ hi = 1
    /\ sound_meta = <<>> /\ merged = <<>> /\ output = <<>> /\ fetched = <<>>
    /\ trace = <<>> /\ lookups = <<>>

MergeIdle == input = <<>> /\ rows = <<>> /\ by_id = <<>> /\ mi = 1

\* no platform call has been made
NoCallYet == last_delay = "start" /\ unpaced = <<>>

\* a platform call is issued: it is unpaced if nothing was slept since the
\* call before it
Issued(call) ==
    unpaced' = IF last_delay = "none" THEN Append(unpaced, call) ELSE unpaced

NotReturned == [done |-> FALSE, value |-> <<>>]
Returned(v) == [done |-> TRUE, value |-> v]
CallIdle == fn = "none" /\ args = <<>> /\ returned = NotReturned

InitMerge ==
    /\ input \in SeqsUpTo(MergeInputs, MaxRows)
    /\ rows = input
    /\ by_id = <<>>
    /\ mi = 1
    /\ SeedIdle /\ TrendingIdle /\ CollectIdle /\ MainIdle
    /\ CallIdle /\ NoCallYet

\* lines 334-361, one row
MergeStep ==
    /\ mi <= Len(rows)
    /\ LET st == MergeRow([heap |-> rows, by_id |-> by_id], mi)
       IN rows' = st.heap /\ by_id' = st.by_id
    /\ mi' = mi + 1
    /\ UNCHANGED <<input, seedVars, trendingVars, collectVars, mainVars>>
    /\ UNCHANGED <<callVars, paceVars>>

NextMerge == MergeStep

SpecMerge == InitMerge /\ [][NextMerge]_vars

MergeDone == mi = Len(rows) + 1

\* line 363: list(by_id.values())
by_id_values == [i \in DOMAIN by_id |-> rows[by_id[i]]]


-----------------------------------------------------------------------------
(* Claims about the merger *)

IdsOf(out) == {out[i].id : i \in DOMAIN out}

\* the provenance a record carries: its sources list, or its single source
Provenance(r) ==
    IF "sources" \in r.keys THEN r.sources
    ELSE IF GetSource(r) # <<>> THEN <<r.source>> ELSE <<>>

\* the elements of s in first-seen order, each once
RECURSIVE FirstSeen(_, _)
FirstSeen(s, seenSoFar) ==
    IF s = <<>> THEN <<>>
    ELSE IF Head(s) \in seenSoFar THEN FirstSeen(Tail(s), seenSoFar)
         ELSE <<Head(s)>> \o FirstSeen(Tail(s), seenSoFar \cup {Head(s)})

\* the tags of the input rows that have id vid, in input order
RECURSIVE TagsOf(_, _)
TagsOf(rs, vid) ==
    IF rs = <<>> THEN <<>>
    ELSE (IF Head(rs).id = vid THEN <<Head(rs).source>> ELSE <<>>) \o TagsOf(Tail(rs), vid)

\* the first input row that has id vid
FirstRow(vid) == input[CHOOSE j \in DOMAIN input :
                         input[j].id = vid /\ \A k \in 1..(j - 1) : input[k].id # vid]

\* C1: dedupe_merge returns exactly one record per distinct non-empty id of
\* the input: no id twice in the output, no record without an id, and the
\* output ids are exactly the non-empty input ids.
C1_OnePerId ==
    MergeDone =>
        /\ \A i, j \in DOMAIN by_id_values : by_id_values[i].id = by_id_values[j].id => i = j
        /\ \A i \in DOMAIN by_id_values : Truthy(by_id_values[i].id)
        /\ IdsOf(by_id_values) = {input[j].id : j \in {k \in DOMAIN input : Truthy(input[k].id)}}

C1_Witness ==
    /\ MergeDone
    /\ \E j \in DOMAIN input : ~Truthy(input[j].id)
    /\ \E i, j \in DOMAIN input : i < j /\ Truthy(input[i].id) /\ input[i].id = input[j].id
    /\ Len(by_id_values) = 1

Ident(n) == [i \in 1..n |-> i]

\* R ++ R where both halves hold the same row objects
SelfMergeSameObjects ==
    dedupe_merge(input, Ident(Len(input)) \o Ident(Len(input)))

\* R ++ R where the second half holds equal copies of the rows
SelfMergeCopies ==
    dedupe_merge(input \o input, Ident(2 * Len(input)))

\* R ++ R of the rows as the first merge left them
SelfMergeAgain ==
    dedupe_merge(rows, Ident(Len(rows)) \o Ident(Len(rows)))

\* C2: merging R ++ R yields the same ids as merging R, and no record of the
\* result lists a provenance tag twice.
C2_Idempotence ==
    MergeDone =>
        \A twice \in {SelfMergeSameObjects, SelfMergeCopies, SelfMergeAgain} :
            /\ IdsOf(twice) = IdsOf(by_id_values)
            /\ Len(twice) = Len(by_id_values)
            /\ \A i \in DOMAIN twice :
                  /\ "sources" \in twice[i].keys
                  /\ NoDup(twice[i].sources)

C2_Witness ==
    /\ MergeDone
    /\ Len(by_id_values) = 2
    /\ \E i \in DOMAIN SelfMergeCopies : Len(SelfMergeCopies[i].sources) = 2

\* a step of the fold removes no tag from a canonical record
StepKeepsTags ==
    \A k \in DOMAIN by_id :
        Range(Provenance(rows[by_id[k]])) \subseteq Range(Provenance(rows'[by_id[k]]))

\* at the end a canonical record carries the tags of all rows of its id, in
\* first-seen order
FinalProvenance ==
    MergeDone =>
        \A k \in DOMAIN by_id :
            Provenance(rows[by_id[k]]) = FirstSeen(TagsOf(input, rows[by_id[k]].id), {})

\* C3: provenance is never lost: no step of the fold removes a recorded tag,
\* and the result carries the tag of every input row of the id, first-seen
\* order, the first row's tag first.
C3_ProvenanceKept == [][StepKeepsTags]_vars /\ []FinalProvenance

C3_Witness ==
    /\ MergeDone
    /\ \E k \in DOMAIN by_id :
          /\ Len(Provenance(rows[by_id[k]])) = 2
          /\ Len(TagsOf(input, rows[by_id[k]].id)) = 3

\* the fields a later sighting must leave alone
Frame(r) ==
    <<r.id, r.url, r.desc, r.author, r.stats, r.hashtags, r.suggest_words, r.music,
      r.score_base>>

\* what one step may do to a record that is canonical before it
StepFrame ==
    \A k \in DOMAIN by_id :
        LET old == rows[by_id[k]]
            new == rows'[by_id[k]]
            r   == rows[mi]
        IN /\ Frame(new) = Frame(old)
           /\ "raw" \in old.keys => new.raw = old.raw
           /\ \A f \in {"cover_url", "author_avatar_url"} :
                 /\ Get(old, f) # None => Get(new, f) = Get(old, f)
                 /\ Get(new, f) # Get(old, f) =>
                        /\ r.id = old.id
                        /\ Get(new, f) = Get(r, f)
           /\ new.keys \ {"sources"} \subseteq old.keys

\* the non-thumbnail fields of the result are those of the first-seen row
FinalFrame ==
    MergeDone =>
        \A k \in DOMAIN by_id_values :
            /\ Frame(by_id_values[k]) = Frame(FirstRow(by_id_values[k].id))
            /\ by_id_values[k].raw = FirstRow(by_id_values[k].id).raw
            /\ \A f \in {"cover_url", "author_avatar_url"} :
                  Get(FirstRow(by_id_values[k].id), f) # None =>
                      Get(by_id_values[k], f) = Get(FirstRow(by_id_values[k].id), f)

\* C4: a later sighting changes the canonical record only by adding a tag
\* and by filling an absent thumbnail field; a set thumbnail field is never
\* overwritten and every other field keeps the first-seen value.
C4_FirstSeenKept == [][StepFrame]_vars /\ []FinalFrame

C4_Witness ==
    /\ MergeDone
    /\ \E k \in DOMAIN by_id_values :
          LET first == FirstRow(by_id_values[k].id)
          IN /\ first.cover_url = None
             /\ Truthy(by_id_values[k].cover_url)
             /\ \E j \in DOMAIN input :
                   /\ input[j].id = by_id_values[k].id
                   /\ Truthy(input[j].cover_url)
                   /\ input[j].cover_url # by_id_values[k].cover_url
                   /\ input[j].desc # by_id_values[k].desc


-----------------------------------------------------------------------------
(* The seed store as a state machine: one step per call *)

MaxCalls == 2
MaxItems == 2

FooBar == <<"F", "o", "o", "B", "a", "r">>
foobar == <<"f", "o", "o", "b", "a", "r">>

\* what a call may be given: the same name in two cases and padded with
\* spaces, a second name, a phrase that starts with '#', an empty item
SeedItems ==
    { FooBar, foobar, <<" ">> \o foobar \o <<" ">>, <<"a", "n", "n">>,
      <<"#", "f", "y", "p">>, <<>> }

\* the seed file as the run finds it: missing, written by earlier runs,
\* or edited by hand (a comment, a blank line, a last line with or without
\* its newline)
SeedFiles ==
    { <<>>,
      foobar \o <<"\n">>,
      <<"#", " ", "c", "\n", "\n">> \o <<"@", "B", "o", "b", "\n">>,
      <<"b", "o", "b", "\n">> \o foobar }

InitSeed ==
    /\ file \in SeedFiles
    /\ entries0 = read_lines(file)
    /\ file0 = file
    /\ items = <<>>
    /\ offered = {}
    /\ ret = 0
    /\ calls = 0
    /\ MergeIdle /\ TrendingIdle /\ CollectIdle /\ MainIdle
    /\ CallIdle /\ NoCallYet

\* one call write_lines_append_dedup(path, new_items)
WriteLinesAppendDedup ==
    /\ calls < MaxCalls
    /\ \E new_items \in SeqsUpTo(SeedItems, MaxItems) :
          LET r == write_lines_append_dedup(file, new_items)
          IN /\ file' = r.file
             /\ ret' = r.ret
             /\ items' = new_items
    /\ entries0' = read_lines(file)
    /\ file0' = file
    /\ offered' = offered \cup {lower(strip(x)) : x \in Range(items)}
    /\ calls' = calls + 1
    /\ UNCHANGED <<mergeVars, trendingVars, collectVars, mainVars>>
    /\ UNCHANGED <<callVars, paceVars>>

NextSeed == WriteLinesAppendDedup

SpecSeed == InitSeed /\ [][NextSeed]_vars

-----------------------------------------------------------------------------
(* Claims about the seed store *)

Key(x) == lower(strip(x))

\* the characters the last call appended, and the lines they make
AppendedText == SubSeq(file, Len(file0) + 1, Len(file))
AppendedLines == [i \in DOMAIN FileLines(AppendedText) |-> strip(FileLines(AppendedText)[i])]

IsPrefix(s, t) == Len(s) <= Len(t) /\ SubSeq(t, 1, Len(s)) = s

\* C5: a call appends no item whose key is that of an entry of the file or
\* of an earlier item of the call; re-offering items offered before appends
\* nothing; the returned count is the number of lines appended.
C5_CaseInsensitiveDedup ==
    calls > 0 =>
        /\ IsPrefix(file0, file)
        /\ \A i \in DOMAIN AppendedLines :
              /\ Key(AppendedLines[i]) \notin {Key(e) : e \in Range(entries0)}
              /\ \A j \in 1..(i - 1) : Key(AppendedLines[j]) # Key(AppendedLines[i])
        /\ (\A x \in Range(items) : Key(x) \in offered \cup {<<>>}) => file = file0
        /\ ret = Len(AppendedLines)

\* C6: what read_lines returned before a call it still returns after it, in
\* the same order, new entries only after the old ones.
C6_AppendOnly ==
    calls > 0 => IsPrefix(entries0, read_lines(file))


-----------------------------------------------------------------------------
(* collect_trending as a state machine: one step per batch pull *)

MaxTarget == 3
MaxBatch == 2

Clip(id, itemId, uniqueId, textExtra, challenges, suggest, music_id, stats) ==
    [id |-> id, itemId |-> itemId, aweme_id |-> None, desc |-> "d",
     uniqueId |-> uniqueId, cover |-> NoImage, avatarThumb |-> Image(<<"a1">>),
     stats |-> stats, textExtra |-> textExtra, challenges |-> challenges,
     suggest |-> suggest, music_id |-> music_id]

\* v1 by Ann: #Fyp, the suggestion "Raah sk!", sound 7
ClipV1 ==
    Clip("v1", None, <<"A", "n", "n">>, << <<"F", "y", "p">> >>, <<>>,
         << <<"R", "a", "a", "h", " ", "s", "k", "!">> >>, <<"7">>,
         Stats(100, 0, 10, 2, 1))

\* v2 (under itemId) by bob: #fyp twice and a two-letter tag, no sound,
\* views under viewCount
ClipV2 ==
    Clip(None, "v2", <<"b", "o", "b">>, << <<"f", "y", "p">>, <<"a", "b">> >>,
         << <<"F", "Y", "P">> >>, <<>>, <<>>, Stats(0, 50, 5, 0, 0))

\* v3 without author, tags or views, sound 8
ClipV3 ==
    Clip("v3", None, <<>>, <<>>, <<>>, <<>>, <<"8">>, Stats(0, 0, 0, 0, 0))

ClipNoId == Clip(None, None, <<"b", "o", "b">>, <<>>, <<>>, <<>>, <<>>, Stats(0, 0, 0, 0, 0))

\* what a trending batch may hold: three videos, one of them under its
\* alternate id field, a payload without id, an object that is no dict
TrendingVideos ==
    { Video(ClipV1), Video(ClipV2), Video(ClipV3), Video(ClipNoId), NotADict }

InitTrending ==
    /\ target \in 0..MaxTarget
    /\ seen = {}
    /\ t_rows = <<>>
    /\ stall = 0
    /\ t_pc = "loop"
    /\ idle = 0
    /\ lastNew = 0
    /\ result = <<>>
    /\ MergeIdle /\ SeedIdle /\ CollectIdle /\ MainIdle
    /\ CallIdle /\ NoCallYet

\* lines 437-460: one batch pull and what the loop does with it
TrendingPull ==
    /\ t_pc = "loop"
    /\ Len(t_rows) < target
    /\ \E batch \in SeqsUpTo(TrendingVideos, MaxBatch) :
          LET nr == NewRows(batch, seen)
              n  == StallAfter(stall, nr.new_rows)
              fresh == {VideoId(batch[i].as_dict) :
                            i \in {k \in DOMAIN batch : batch[k].isdict}}
                       \ (seen \cup {None, ""})
          IN /\ seen' = nr.seen
             /\ t_rows' = t_rows \o nr.new_rows
             /\ stall' = n
             /\ lastNew' = Len(nr.new_rows)
             /\ idle' = IF fresh = {} THEN idle + 1 ELSE 0
             /\ IF nr.new_rows = <<>> /\ n >= StallLimit
                THEN /\ t_pc' = "done"
                     /\ result' = Take(t_rows', target)
                ELSE /\ t_pc' = "sleep"
                     /\ UNCHANGED result
    /\ Issued(<<"trending">>)
    /\ last_delay' = "none"
    /\ UNCHANGED <<target, mergeVars, seedVars, collectVars, mainVars>>
    /\ UNCHANGED callVars

\* line 439: the platform call raises; nothing catches it
TrendingRaise ==
    /\ t_pc = "loop"
    /\ Len(t_rows) < target
    /\ t_pc' = "raised"
    /\ Issued(<<"trending">>)
    /\ last_delay' = "none"
    /\ UNCHANGED <<target, seen, t_rows, stall, idle, lastNew, result>>
    /\ UNCHANGED <<mergeVars, seedVars, collectVars, mainVars>>
    /\ UNCHANGED callVars

\* line 462
TrendingSleep ==
    /\ t_pc = "sleep"
    /\ t_pc' = "loop"
    /\ last_delay' = "SLEEP_BETWEEN_REQUESTS"
    /\ UNCHANGED unpaced
    /\ UNCHANGED <<target, seen, t_rows, stall, idle, lastNew, result>>
    /\ UNCHANGED <<mergeVars, seedVars, collectVars, mainVars>>
    /\ UNCHANGED callVars

\* lines 437, 464: the loop condition fails
TrendingReturn ==
    /\ t_pc = "loop"
    /\ Len(t_rows) >= target
    /\ t_pc' = "done"
    /\ result' = Take(t_rows, target)
    /\ UNCHANGED <<target, seen, t_rows, stall, idle, lastNew>>
    /\ UNCHANGED <<mergeVars, seedVars, collectVars, mainVars>>
    /\ UNCHANGED <<callVars, paceVars>>

NextTrending == TrendingPull \/ TrendingRaise \/ TrendingSleep \/ TrendingReturn

\* the event loop keeps running the coroutine: a step that can be taken is
\* taken
SpecTrending == InitTrending /\ [][NextTrending]_vars /\ WF_vars(NextTrending)

-----------------------------------------------------------------------------
(* Claims about collect_trending *)

TrendingEnded == t_pc \in {"done", "raised"}

\* what holds all along and at the return
StallSafety ==
    /\ stall = idle
    /\ stall <= StallLimit
    /\ (t_pc \in {"loop", "sleep"}) => stall < StallLimit
    /\ (t_pc = "sleep" /\ lastNew > 0) => stall = 0
    /\ \A i, j \in DOMAIN t_rows : t_rows[i].id = t_rows[j].id => i = j
    /\ t_pc = "done" =>
          /\ Len(result) <= target
          /\ IsPrefix(result, t_rows)
          /\ \/ Len(result) = target /\ stall < StallLimit
             \/ Len(result) < target /\ idle = StallLimit

\* C7: collect_trending terminates whatever the source returns; it stops at
\* target rows of distinct ids, or below target after 6 consecutive batches
\* without an unseen id; a batch with a new id resets the stall counter.
C7_StallTermination == <>TrendingEnded /\ []StallSafety

C7_Witness ==
    /\ t_pc = "done"
    /\ idle = StallLimit
    /\ Len(result) = 2
    /\ target = 3


-----------------------------------------------------------------------------
(* collect_accounts, collect_hashtags, collect_sounds as a state machine:  *)
(* one step per unit                                                       *)

MaxCap == 2
MaxYield == 2

\* the unit lists of this model: names with and without their sigil, a
\* blank entry, a sound id
UnitLists ==
    { << <<"@", "a", "n", "n">>, <<" ">>, <<"#", "f", "y", "p">> >>,
      << <<"#">>, <<"7">> >>,
      <<>> }

\* what the platform may yield for a unit: videos and objects that are no
\* dict, any number of them up to MaxYield whatever count was asked for
UnitVideos == {Video(ClipV1), NotADict}

InitCollect ==
    /\ kind \in {"account", "hashtag", "sound"}
    /\ units \in UnitLists
    /\ cap \in 1..MaxCap
    /\ ui = 1
    /\ c_rows = <<>>
    /\ log = <<>>
    /\ c_pc = "run"
    /\ MergeIdle /\ SeedIdle /\ TrendingIdle /\ MainIdle
    /\ CallIdle /\ NoCallYet

\* every answer of the platform: the iterator yields `yielded` and then ends,
\* or raises `error`
UnitAnswers ==
    [yielded : SeqsUpTo(UnitVideos, MaxYield), error : {"none"} \cup FetchErrors]

\* lines 469-480 (484-497, 503-514): one unit, answered by one of `answers`
FetchUnitFrom(answers) ==
    /\ c_pc = "run"
    /\ ui <= Len(units)
    /\ LET u == NormalizeUnit(kind, units[ui])
       IN IF u = <<>>
          THEN UNCHANGED <<c_rows, log, c_pc, paceVars>>
          ELSE \E a \in answers :
                  /\ c_rows' = c_rows \o UnitRows(a.yielded, SourceTag(kind, u))
                  /\ log' = Append(log, [unit |-> u, yielded |-> a.yielded,
                                         error |-> a.error,
                                         before |-> Len(c_rows), after |-> Len(c_rows')])
                  /\ c_pc' = IF a.error = "none" \/ Caught(a.error) THEN "run" ELSE "raised"
                  /\ Issued(<<kind, u>>)
                  /\ last_delay' = IF a.error = "none" \/ Caught(a.error)
                                   THEN "SLEEP_BETWEEN_REQUESTS" ELSE "none"
    /\ ui' = ui + 1
    /\ UNCHANGED <<kind, units, cap, mergeVars, seedVars, trendingVars, mainVars>>
    /\ UNCHANGED callVars

FetchUnit == FetchUnitFrom(UnitAnswers)

\* lines 481, 498, 515
CollectReturn ==
    /\ c_pc = "run"
    /\ ui > Len(units)
    /\ c_pc' = "returned"
    /\ UNCHANGED <<kind, units, cap, ui, c_rows, log>>
    /\ UNCHANGED <<mergeVars, seedVars, trendingVars, mainVars>>
    /\ UNCHANGED <<callVars, paceVars>>

NextCollect == FetchUnit \/ CollectReturn

SpecCollect == InitCollect /\ [][NextCollect]_vars

-----------------------------------------------------------------------------
(* Claims about the per-unit collectors *)

\* the non-blank units among the first n of the list, as queried, in order
RECURSIVE QueriedUnits(_, _)
QueriedUnits(us, k) ==
    IF us = <<>> THEN <<>>
    ELSE (IF NormalizeUnit(k, Head(us)) = <<>> THEN <<>>
          ELSE <<NormalizeUnit(k, Head(us))>>) \o QueriedUnits(Tail(us), k)

IsDict(v) == v.isdict

\* the rows of the dicts that the units of the log yielded, in order
RECURSIVE LoggedRows(_)
LoggedRows(l) ==
    IF l = <<>> THEN <<>>
    ELSE LET dicts == SelectSeq(Head(l).yielded, IsDict)
         IN [i \in DOMAIN dicts |->
                extract_video(dicts[i].as_dict, SourceTag(kind, Head(l).unit))]
            \o LoggedRows(Tail(l))

\* C8: a failure while fetching one unit never leaves the collector: every
\* later unit is still fetched in list order and the rows of earlier units
\* (and those the failing unit yielded before it failed) stay in the result.
C8_FailureIsolation ==
    /\ c_pc # "raised"
    /\ [i \in DOMAIN log |-> log[i].unit] = QueriedUnits(SubSeq(units, 1, ui - 1), kind)
    /\ Len(c_rows) = Len(LoggedRows(log))
    /\ c_rows = LoggedRows(log)
    /\ c_pc = "returned" => ui = Len(units) + 1

C8_Witness ==
    /\ c_pc = "returned"
    /\ Len(units) = 3
    /\ Len(log) = 2
    /\ log[1].error # "none" /\ log[1].after = 1
    /\ log[2].error = "none" /\ log[2].after = 2
    /\ Len(c_rows) = 2

\* C9: no unit contributes more rows than the per-unit cap.
C9_PerUnitCap ==
    \A i \in DOMAIN log : log[i].after - log[i].before <= cap


-----------------------------------------------------------------------------
(* main as a state machine: the phases of one run *)

\* TRENDING_TARGET and MAX_ACCOUNTS_TO_CHECK, MAX_HASHTAGS_TO_CHECK,
\* MAX_SOUNDS_TO_CHECK of this model (300, 200, 240, 240 in the source)
MainTarget == 2
MaxAccountsToCheck == 1
MaxHashtagsToCheck == 1
MaxSoundsToCheck == 1

PER_ACCOUNT_LIMIT == 2
PER_HASHTAG_LIMIT == 2
PER_SOUND_LIMIT == 3

NoFiles == [accounts |-> <<>>, hashtags |-> <<>>, suggest |-> <<>>, sounds |-> <<>>]

\* the seed files a run may find: none yet, or lists kept by hand
MainFiles ==
    { NoFiles,
      [accounts |-> <<"@", "Z", "e", "d", "\n">>,
       hashtags |-> <<"#", "F", "Y", "P", "\n">>,
       suggest  |-> <<>>,
       sounds   |-> <<"9", "\n">>],
      [accounts |-> <<"b", "o", "b">>,
       hashtags |-> <<"f", "y", "p", "\n">>,
       suggest  |-> <<"#", " ", "c", "\n">>,
       sounds   |-> <<"7", "\n">>] }

CollectPhases == {"accounts", "hashtags", "sounds"}

\* the answers of the platform in a run of main: the fetch fails at once, or
\* it yields an object that is no dict and then v1
MainAnswers ==
    { [yielded |-> <<>>, error |-> "platform error"],
      [yielded |-> <<NotADict, Video(ClipV1)>>, error |-> "none"] }

\* one unit of the running collector
MainFetchUnit == FetchUnitFrom(MainAnswers)

\* main, lines 599-703: the phase that follows each phase
NextPhase_SeedAfterAccounts(p) ==
    CASE p = "trending" -> "accounts"
      [] p = "accounts" -> "seed"
      [] p = "seed"     -> "hashtags"
      [] p = "hashtags" -> "sounds"
      [] p = "sounds"   -> "hydrate"
      [] p = "hydrate"  -> "merge"
      [] p = "merge"    -> "report"
      [] p = "report"   -> "done"

NextPhase(p) ==
    CASE p = "trending" -> "seed"
      [] p = "seed"     -> "accounts"
      [] p = "accounts" -> "hashtags"
      [] p = "hashtags" -> "sounds"
      [] p = "sounds"   -> "hydrate"
      [] p = "hydrate"  -> "merge"
      [] p = "merge"    -> "report"
      [] p = "report"   -> "done"

\* lines 628, 631, 634: the arguments of the three collectors
KindOf(p) ==
    CASE p = "accounts" -> "account" [] p = "hashtags" -> "hashtag" [] p = "sounds" -> "sound"

UnitsOf(p) ==
    CASE p = "accounts" -> Take(lists.accounts, MaxAccountsToCheck)
      [] p = "hashtags" -> Take(lists.tags, MaxHashtagsToCheck)
      [] p = "sounds"   -> Take(lists.sounds, MaxSoundsToCheck)

LimitOf(p) ==
    CASE p = "accounts" -> PER_ACCOUNT_LIMIT
      [] p = "hashtags" -> PER_HASHTAG_LIMIT
      [] p = "sounds"   -> PER_SOUND_LIMIT

\* line 602: what the seeds are computed from
SeedInput == trending_rows

InitMain ==
    /\ pc = "trending"
    /\ files \in MainFiles
    /\ files0 = files
    /\ trending_rows = <<>>
    /\ later_rows = [account |-> <<>>, hashtag |-> <<>>, sound |-> <<>>]
    /\ seeds = [hashtags |-> <<>>, creators |-> <<>>, suggest_words |-> <<>>, sounds |-> <<>>]
    /\ added = [accounts |-> 0, tags |-> 0, suggest |-> 0, sounds |-> 0, tags_from_suggest |-> 0]
    /\ lists = [accounts |-> <<>>, tags |-> <<>>, sounds |-> <<>>]
    /\ hi = 1
    /\ sound_meta = <<>>
    /\ lookups = <<>>
    /\ merged = <<>>
    /\ output = <<>>
    /\ fetched = <<>>
    /\ trace = <<"trending">>
    /\ target = MainTarget
    /\ seen = {} /\ t_rows = <<>> /\ stall = 0 /\ t_pc = "loop"
    /\ idle = 0 /\ lastNew = 0 /\ result = <<>>
    /\ MergeIdle /\ SeedIdle /\ CollectIdle
    /\ CallIdle /\ NoCallYet

Enter(p) == pc' = p /\ trace' = Append(trace, p)

\* line 600: collect_trending has returned
EndTrending ==
    /\ pc = "trending"
    /\ t_pc = "done"
    /\ trending_rows' = result
    /\ Enter(NextPhase(pc))
    /\ target' = 0 /\ seen' = {} /\ t_rows' = <<>> /\ stall' = 0 /\ t_pc' = "idle"
    /\ idle' = 0 /\ lastNew' = 0 /\ result' = <<>>
    /\ UNCHANGED <<files, files0, later_rows, seeds, added, lists, hi, sound_meta, lookups, merged,
                   output, fetched>>
    /\ UNCHANGED <<mergeVars, seedVars, collectVars>>
    /\ UNCHANGED <<callVars, paceVars>>

\* lines 602-619: the seeds, the five appends, the reload of the lists
SeedExpand ==
    /\ pc = "seed"
    /\ LET sd == seed_from_trending(SeedInput)
           w_accounts == write_lines_append_dedup(files.accounts, sd.creators)
           w_tags     == write_lines_append_dedup(files.hashtags, sd.hashtags)
           w_suggest  == write_lines_append_dedup(files.suggest, sd.suggest_words)
           w_sounds   == write_lines_append_dedup(files.sounds, sd.sounds)
           candidates == Flatten([i \in DOMAIN sd.suggest_words |->
                            suggest_phrase_to_hashtag_candidates(sd.suggest_words[i])])
           w_tags2    == write_lines_append_dedup(w_tags.file, candidates)
           accs == read_lines(w_accounts.file)
           tags == read_lines(w_tags2.file)
           snds == read_lines(w_sounds.file)
       IN /\ seeds' = sd
          /\ files' = [accounts |-> w_accounts.file, hashtags |-> w_tags2.file,
                       suggest |-> w_suggest.file, sounds |-> w_sounds.file]
          /\ added' = [accounts |-> w_accounts.ret, tags |-> w_tags.ret,
                       suggest |-> w_suggest.ret, sounds |-> w_sounds.ret,
                       tags_from_suggest |-> w_tags2.ret]
          /\ lists' = [accounts |-> [i \in DOMAIN accs |-> lower(strip(lstrip(accs[i], {"@"})))],
                       tags     |-> [i \in DOMAIN tags |-> lower(lstrip(strip(tags[i]), {"#"}))],
                       sounds   |-> [i \in DOMAIN snds |-> strip(snds[i])]]
    /\ Enter(NextPhase(pc))
    /\ UNCHANGED <<files0, trending_rows, later_rows, hi, sound_meta, lookups, merged, output, fetched>>
    /\ UNCHANGED <<mergeVars, seedVars, trendingVars, collectVars>>
    /\ UNCHANGED <<callVars, paceVars>>

\* lines 628, 631, 634: the call of the phase's collector
StartCollect ==
    /\ pc \in CollectPhases
    /\ c_pc = "idle"
    /\ kind' = KindOf(pc)
    /\ units' = UnitsOf(pc)
    /\ cap' = LimitOf(pc)
    /\ ui' = 1
    /\ c_rows' = <<>>
    /\ log' = <<>>
    /\ c_pc' = "run"
    /\ UNCHANGED <<mainVars, mergeVars, seedVars, trendingVars>>
    /\ UNCHANGED <<callVars, paceVars>>

\* lines 628, 631, 634: the collector has returned
EndCollect ==
    /\ pc \in CollectPhases
    /\ c_pc = "returned"
    /\ later_rows' = [later_rows EXCEPT ![kind] = c_rows]
    /\ fetched' = fetched \o [i \in DOMAIN log |-> <<kind, log[i].unit>>]
    /\ Enter(NextPhase(pc))
    /\ kind' = "none" /\ units' = <<>> /\ cap' = 0 /\ ui' = 1 /\ c_rows' = <<>>
    /\ log' = <<>> /\ c_pc' = "idle"
    /\ UNCHANGED <<files, files0, trending_rows, seeds, added, lists, hi, sound_meta, lookups, merged,
                   output>>
    /\ UNCHANGED <<mergeVars, seedVars, trendingVars>>
    /\ UNCHANGED <<callVars, paceVars>>

\* what api.sound(id).info() may do
SoundAnswers ==
    {InfoRaises, NoInfo, EmptyInfo, Info(500), Info(EmergingThreshold)}

\* lines 520-535: the lookup of one sound id
SoundInfo ==
    /\ pc = "hydrate"
    /\ hi <= Len(SoundIds(trending_rows))
    /\ LET sid == SoundIds(trending_rows)[hi]
       IN IF sid = <<>> \/ \E i \in DOMAIN sound_meta : sound_meta[i].id = sid
          THEN UNCHANGED <<sound_meta, lookups, paceVars>>
          ELSE \E lookup \in SoundAnswers :
                  /\ sound_meta' = SoundInfoStep(sound_meta, sid, lookup)
                  /\ lookups' = Append(lookups, [id |-> sid, answer |-> lookup])
                  /\ Issued(<<"sound info", sid>>)
                  /\ last_delay' = "SOUND_INFO_BATCH_SLEEP"
    /\ hi' = hi + 1
    /\ UNCHANGED <<pc, files, files0, trending_rows, later_rows, seeds, added, lists, merged,
                   output, fetched, trace>>
    /\ UNCHANGED <<mergeVars, seedVars, trendingVars, collectVars>>
    /\ UNCHANGED callVars

\* line 536: collect_sound_info has returned
EndHydrate ==
    /\ pc = "hydrate"
    /\ hi > Len(SoundIds(trending_rows))
    /\ Enter(NextPhase(pc))
    /\ UNCHANGED <<files, files0, trending_rows, later_rows, seeds, added, lists, hi,
                   sound_meta, lookups, merged, output, fetched>>
    /\ UNCHANGED <<mergeVars, seedVars, trendingVars, collectVars>>
    /\ UNCHANGED <<callVars, paceVars>>

\* lines 640-648: merge, hydrated counts, scores, sort
MergeScore ==
    /\ pc = "merge"
    /\ LET all == trending_rows \o later_rows.account \o later_rows.hashtag
                  \o later_rows.sound
           m   == dedupe_merge(all, Ident(Len(all)))
           h   == [i \in DOMAIN m |-> WithVideoCount(m[i], sound_meta)]
       IN merged' = SortByScoreDesc(add_pool_level_scores(h, Range(lists.accounts)))
    /\ Enter(NextPhase(pc))
    /\ UNCHANGED <<files, files0, trending_rows, later_rows, seeds, added, lists, hi,
                   sound_meta, lookups, output, fetched>>
    /\ UNCHANGED <<mergeVars, seedVars, trendingVars, collectVars>>
    /\ UNCHANGED <<callVars, paceVars>>

\* lines 652-703: the snapshot document
Report ==
    /\ pc = "report"
    /\ output' =
          [counts |-> [trending |-> Len(trending_rows),
                       accounts_raw |-> Len(later_rows.account),
                       hashtags_raw |-> Len(later_rows.hashtag),
                       sounds_raw |-> Len(later_rows.sound),
                       unique_total |-> Len(merged)],
           seed_appended |-> added,
           sound_meta |-> sound_meta,
           emerging_sounds |-> EmergingSounds(sound_meta),
           items |-> merged]
    /\ Enter(NextPhase(pc))
    /\ UNCHANGED <<files, files0, trending_rows, later_rows, seeds, added, lists, hi,
                   sound_meta, lookups, merged, fetched>>
    /\ UNCHANGED <<mergeVars, seedVars, trendingVars, collectVars>>
    /\ UNCHANGED <<callVars, paceVars>>

NextMain ==
    \/ TrendingPull \/ TrendingRaise \/ TrendingSleep \/ TrendingReturn \/ EndTrending
    \/ SeedExpand
    \/ StartCollect \/ MainFetchUnit \/ CollectReturn \/ EndCollect
    \/ SoundInfo \/ EndHydrate
    \/ MergeScore
    \/ Report

SpecMain == InitMain /\ [][NextMain]_vars


-----------------------------------------------------------------------------
(* main: the order of the phases and the input of the seed expansion *)

PhaseOrder ==
    <<"trending", "seed", "accounts", "hashtags", "sounds", "hydrate", "merge", "report",
      "done">>

\* the lines appended to a seed file since the start of the run
NewLines(name) ==
    LET text == SubSeq(files[name], Len(files0[name]) + 1, Len(files[name]))
    IN [i \in DOMAIN FileLines(text) |-> strip(FileLines(text)[i])]

\* what the trending-sourced rows offer to each seed file
TrendingOffers(name) ==
    LET rs == trending_rows
        words == UNION {Range(rs[i].suggest_words) : i \in DOMAIN rs}
    IN CASE name = "accounts" -> {lower(rs[i].author) : i \in DOMAIN rs}
         [] name = "hashtags" ->
                UNION {Range(rs[i].hashtags) : i \in DOMAIN rs}
                \cup UNION {Range(suggest_phrase_to_hashtag_candidates(w)) : w \in words}
         [] name = "suggest"  -> words
         [] name = "sounds"   -> {rs[i].music : i \in DOMAIN rs}

SeedFileNames == {"accounts", "hashtags", "suggest", "sounds"}

\* a step that writes a seed file is the seed expansion
WritesInSeedStep == files' # files => pc = "seed" /\ pc' = "accounts"

\* a unit is fetched in a collection phase, a trending batch in the trending phase
FetchesInOwnPhase ==
    /\ Len(log') > Len(log) => pc \in CollectPhases /\ pc' = pc
    /\ (c_rows' # c_rows \/ c_pc' # c_pc) => pc \in CollectPhases
    /\ (t_rows' # t_rows \/ t_pc' # t_pc) => pc = "trending"

PhasesInOrder ==
    /\ IsPrefix(trace, PhaseOrder)
    /\ pc = trace[Len(trace)]

SeedBeforeLaterPhases ==
    /\ pc \in {"trending", "seed"} =>
          /\ fetched = <<>> /\ c_pc = "idle" /\ log = <<>>
          /\ later_rows.account = <<>> /\ later_rows.hashtag = <<>> /\ later_rows.sound = <<>>
    /\ pc = "trending" => files = files0
    /\ pc = "seed" => t_pc = "idle" /\ files = files0

SeedsFromTrendingOnly ==
    /\ \A i \in DOMAIN trending_rows : trending_rows[i].source = <<"trending">>
    /\ pc \notin {"trending", "seed"} =>
          /\ seeds = seed_from_trending(trending_rows)
          /\ \A name \in SeedFileNames :
                /\ IsPrefix(files0[name], files[name])
                /\ Range(NewLines(name)) \subseteq TrendingOffers(name)

\* C10: the seed files are written only by the seed-expansion step, which
\* runs after trending collection has returned and before the first account,
\* hashtag or sound fetch; every line it appends comes from the trending rows
\* alone; the phases run in the order trending, seed, accounts, hashtags,
\* sounds, hydrate, merge, report.
C10_SeedAfterTrendingOnly ==
    /\ [][WritesInSeedStep /\ FetchesInOwnPhase]_vars
    /\ [](PhasesInOrder /\ SeedBeforeLaterPhases /\ SeedsFromTrendingOnly)

\* a finished run that appended seeds, queried an expanded seed and collected
\* a row in a later phase
C10_Witness ==
    /\ pc = "done"
    /\ trace = PhaseOrder
    /\ files # files0
    /\ fetched # <<>>
    /\ later_rows.account # <<>>
    /\ Len(output.items) > 0


-----------------------------------------------------------------------------
(* main: the use of the expanded seed lists *)

\* lines 617-619 and the collector's own normalisation: the unit that a
\* line of a seed file is queried as
UnitOfLine(name, line) ==
    CASE name = "accounts" -> NormalizeUnit("account", lower(strip(lstrip(line, {"@"}))))
      [] name = "hashtags" -> NormalizeUnit("hashtag", lower(lstrip(strip(line), {"#"})))
      [] name = "sounds"   -> NormalizeUnit("sound", strip(line))

SoundsPhaseOver == pc \in {"hydrate", "merge", "report", "done"}

\* C11: once the three collection phases of a run are over, every line that
\* the seed expansion appended to the account, hashtag or sound file has been
\* queried as a unit by the collector of its kind.
C11_ExpandedSeedsQueried ==
    SoundsPhaseOver =>
        \A name \in CollectPhases :
            \A i \in DOMAIN NewLines(name) :
                <<KindOf(name), UnitOfLine(name, NewLines(name)[i])>> \in Range(fetched)


-----------------------------------------------------------------------------
(* collect_sound_info within main *)

\* a lookup that the hydrator is to take as failed
FailedLookup(a) == a.raises \/ ~a.isdict \/ a.empty

MetaIds == {sound_meta[i].id : i \in DOMAIN sound_meta}

\* C12: the lookups made are one per distinct sound id of the trending
\* rows, in order; the id of a failed lookup (exception, empty result, no
\* dict) is absent from sound_meta; no lookup ends the run: when
\* collect_sound_info has returned every sound id has been looked up.
C12_BestEffortHydration ==
    /\ [i \in DOMAIN lookups |-> lookups[i].id]
          = SubSeq(SoundIds(trending_rows), 1, Len(lookups))
    /\ \A i \in DOMAIN lookups : FailedLookup(lookups[i].answer) => lookups[i].id \notin MetaIds
    /\ pc \in {"merge", "report", "done"} => Len(lookups) = Len(SoundIds(trending_rows))


-----------------------------------------------------------------------------
(* add_pool_level_scores on its own: one call on a corpus *)

MaxCorpus == 4

Tag(n) == <<"t", n>>

\* by Ann: seven hashtags that no other clip has, a suggestion, sound 7
ScoreClip1 ==
    Clip("s1", None, <<"A", "n", "n">>,
         <<Tag("1"), Tag("2"), Tag("3"), Tag("4"), Tag("5"), Tag("6"), Tag("7")>>, <<>>,
         << <<"w", "o", "r", "d">> >>, <<"7">>, Stats(100, 0, 10, 2, 1))

\* by bob: #fyp, sound 7, no views
ScoreClip2 ==
    Clip("s2", None, <<"b", "o", "b">>, << <<"f", "y", "p">> >>, <<>>, <<>>, <<"7">>,
         Stats(0, 0, 5, 0, 0))

\* by ann: #fyp and #ab, sound 7
ScoreClip3 ==
    Clip("s3", None, <<"a", "n", "n">>, << <<"f", "y", "p">>, <<"a", "b">> >>, <<>>, <<>>,
         <<"7">>, Stats(30, 0, 1, 0, 0))

\* no author, #fyp, no sound
ScoreClip4 ==
    Clip("s4", None, <<>>, << <<"f", "y", "p">> >>, <<>>, <<>>, <<>>, Stats(0, 7, 7, 7, 7))

ScoreClips == {ScoreClip1, ScoreClip2, ScoreClip3, ScoreClip4}

\* the corpora: rows of distinct clips, in any order
Corpora ==
    {[i \in DOMAIN c |-> extract_video(c[i], <<"trending">>)] :
        c \in {x \in SeqsUpTo(ScoreClips, MaxCorpus) : NoDup(x)}}

PrivilegedSets == SUBSET {<<"a", "n", "n">>, <<"b", "o", "b">>, <<"A", "n", "n">>}

InitScore ==
    /\ fn = "add_pool_level_scores"
    /\ args \in [rows : Corpora, big_accounts : PrivilegedSets]
    /\ returned = NotReturned
    /\ MergeIdle /\ SeedIdle /\ TrendingIdle /\ CollectIdle /\ MainIdle /\ NoCallYet

\* lines 366-394
ScoreCall ==
    /\ fn = "add_pool_level_scores"
    /\ ~returned.done
    /\ returned' = Returned(add_pool_level_scores(args.rows, args.big_accounts))
    /\ UNCHANGED <<fn, args, mergeVars, seedVars, trendingVars, collectVars, mainVars, paceVars>>

NextScore == ScoreCall

SpecScore == InitScore /\ [][NextScore]_vars

-----------------------------------------------------------------------------
(* Claims about add_pool_level_scores *)

\* number of rows of the corpus that contain hashtag h / cite sound id sid
Containing(rs, h) == Cardinality({i \in DOMAIN rs : \E k \in DOMAIN rs[i].hashtags :
                                                       rs[i].hashtags[k] = h})
Citing(rs, sid) == Cardinality({i \in DOMAIN rs : rs[i].music = sid})

\* the rare hashtags of a row
RareTags(rs, r) == {k \in DOMAIN r.hashtags : Containing(rs, r.hashtags[k]) <= 2}

\* the sound and account bonuses, in units
SoundBonus(rs, r) == IF r.music # <<>> /\ Citing(rs, r.music) <= 2 THEN 1 ELSE 0
AccountBonus(r, big) == IF r.author # <<>> /\ lower(r.author) \in big THEN 1 ELSE 0

\* what the hashtag rarity added to the score of row i, in ten-thousandths
RarityPart(i) ==
    LET r == args.rows[i]
    IN returned.value[i].score
       - Round4(FracAdd(r.score_base,
                        Frac(SoundBonus(args.rows, r) + AccountBonus(r, args.big_accounts), 1)))

\* C13: for every record of the corpus, the hashtag-rarity contribution to
\* score is at least 0 and at most 3.0.
C13_RarityBonusBound ==
    returned.done =>
        \A i \in DOMAIN returned.value : RarityPart(i) >= 0 /\ RarityPart(i) <= 30000

\* a record with seven rare hashtags, whose contribution is 3.0
C13_Witness ==
    /\ returned.done
    /\ \E i \in DOMAIN returned.value :
          /\ Cardinality(RareTags(args.rows, args.rows[i])) = 7
          /\ RarityPart(i) = 30000


-----------------------------------------------------------------------------
(* suggest_phrase_to_hashtag_candidates on its own: one call on a phrase *)

MaxPhrase == 4

PhraseChars == {"A", "b", "1", " ", "!", "_"}

RaahSkeleton == <<"R", "a", "a", "h", " ", "S", "k", "e", "l", "e", "t", "o", "n", "!">>
Hi == <<"h", "i">>

Phrases == SeqsUpTo(PhraseChars, MaxPhrase) \cup {RaahSkeleton, Hi}

InitSuggest ==
    /\ fn = "suggest_phrase_to_hashtag_candidates"
    /\ args \in Phrases
    /\ returned = NotReturned
    /\ MergeIdle /\ SeedIdle /\ TrendingIdle /\ CollectIdle /\ MainIdle /\ NoCallYet

\* lines 143-173
SuggestCall ==
    /\ fn = "suggest_phrase_to_hashtag_candidates"
    /\ ~returned.done
    /\ returned' = Returned(suggest_phrase_to_hashtag_candidates(args))
    /\ UNCHANGED <<fn, args, mergeVars, seedVars, trendingVars, collectVars, mainVars, paceVars>>

NextSuggest == SuggestCall

SpecSuggest == InitSuggest /\ [][NextSuggest]_vars

-----------------------------------------------------------------------------
(* Claims about suggest_phrase_to_hashtag_candidates *)

IsAlnum(c) == c \in Range(LowerLetters) \cup Range(UpperLetters) \cup Range(Digits)

\* the words of a phrase: its maximal runs of letters and digits between
\* spaces, lowercased, every other character left out
RECURSIVE WordsOf(_, _)
WordsOf(phrase, word) ==
    IF phrase = <<>> THEN (IF word = <<>> THEN <<>> ELSE <<word>>)
    ELSE LET c == Head(phrase)
         IN IF c = " "
            THEN (IF word = <<>> THEN <<>> ELSE <<word>>) \o WordsOf(Tail(phrase), <<>>)
            ELSE IF IsAlnum(c) THEN WordsOf(Tail(phrase), Append(word, LowerChar(c)))
            ELSE WordsOf(Tail(phrase), word)

RECURSIVE JoinWith(_, _)
JoinWith(ws, sep) ==
    IF ws = <<>> THEN <<>>
    ELSE IF Len(ws) = 1 THEN ws[1]
    ELSE ws[1] \o sep \o JoinWith(Tail(ws), sep)

Candidates(phrase) ==
    LET ws == WordsOf(phrase, <<>>)
        concatenated == JoinWith(ws, <<>>)
        underscored  == JoinWith(ws, <<"_">>)
    IN (IF Len(concatenated) >= 3 THEN <<concatenated>> ELSE <<>>)
       \o (IF Len(underscored) >= 3 /\ underscored # concatenated
           THEN <<underscored>> ELSE <<>>)

\* C14: the candidates of a phrase are the concatenation of its lowercased
\* words and then their underscore-joined form, each only if it has at
\* least 3 characters, and no candidate twice; "Raah Skeleton!" gives
\* raahskeleton, raah_skeleton and "hi" gives nothing.
C14_SuggestCandidates ==
    returned.done =>
        /\ returned.value = Candidates(args)
        /\ \A i \in DOMAIN returned.value : Len(returned.value[i]) >= 3
        /\ NoDup(returned.value)
        /\ args = RaahSkeleton =>
              returned.value = << <<"r", "a", "a", "h", "s", "k", "e", "l", "e", "t", "o", "n">>,
                                  <<"r", "a", "a", "h", "_", "s", "k", "e", "l", "e", "t", "o", "n">> >>
        /\ args = Hi => returned.value = <<>>

C14_Witness ==
    /\ returned.done
    /\ args = RaahSkeleton
    /\ Len(returned.value) = 2


-----------------------------------------------------------------------------
(* should_flag_emerging and the emerging list on their own *)

MaxMeta == 2

VideoCounts == {NoCount, 0, 1, 999, 1000, 1001}
Thresholds == {0, 1, 1000, 1001}

MetaEntries == [id : {<<"7">>, <<"8">>}, video_count : VideoCounts]

\* the values of a sound_meta dict: no id twice
SoundMetas ==
    {m \in SeqsUpTo(MetaEntries, MaxMeta) : NoDup([i \in DOMAIN m |-> m[i].id])}

InitEmerging ==
    /\ \/ /\ fn = "should_flag_emerging"
          /\ args \in [sound_info : MetaEntries, threshold : Thresholds]
       \/ /\ fn = "emerging_sounds"
          /\ args \in [sound_meta : SoundMetas]
    /\ returned = NotReturned
    /\ MergeIdle /\ SeedIdle /\ TrendingIdle /\ CollectIdle /\ MainIdle /\ NoCallYet

\* lines 422-426
FlagCall ==
    /\ fn = "should_flag_emerging"
    /\ ~returned.done
    /\ returned' = Returned(should_flag_emerging(args.sound_info, args.threshold))
    /\ UNCHANGED <<fn, args, mergeVars, seedVars, trendingVars, collectVars, mainVars, paceVars>>

\* lines 652-656
EmergingCall ==
    /\ fn = "emerging_sounds"
    /\ ~returned.done
    /\ returned' = Returned(EmergingSounds(args.sound_meta))
    /\ UNCHANGED <<fn, args, mergeVars, seedVars, trendingVars, collectVars, mainVars, paceVars>>

NextEmerging == FlagCall \/ EmergingCall

SpecEmerging == InitEmerging /\ [][NextEmerging]_vars

-----------------------------------------------------------------------------
(* Claims about the emerging classification *)

HasCount(e) == e.video_count # NoCount

Below1000(e) == HasCount(e) /\ e.video_count < 1000

\* the entries of m with a count below 1000, in the order of m
RECURSIVE ThoseBelow1000(_)
ThoseBelow1000(m) ==
    IF m = <<>> THEN <<>>
    ELSE (IF Below1000(Head(m)) THEN <<Head(m)>> ELSE <<>>) \o ThoseBelow1000(Tail(m))

\* C15: should_flag_emerging is true exactly when the count is there and
\* strictly below the threshold; the emerging list is exactly the entries
\* of sound_meta with a count strictly below 1000.
C15_EmergingClassification ==
    returned.done =>
        /\ fn = "should_flag_emerging" =>
              (returned.value <=> (HasCount(args.sound_info)
                                   /\ args.sound_info.video_count < args.threshold))
        /\ fn = "emerging_sounds" => returned.value = ThoseBelow1000(args.sound_meta)

\* a sound_meta with a count equal to the threshold, not flagged, and one
\* just below it, flagged
C15_Witness ==
    /\ returned.done
    /\ fn = "emerging_sounds"
    /\ Len(args.sound_meta) = 2
    /\ args.sound_meta[1].video_count = 1000
    /\ args.sound_meta[2].video_count = 999
    /\ returned.value = <<args.sound_meta[2]>>


-----------------------------------------------------------------------------
(* extract_video on its own: one call on a raw item *)

Word == <<"w", "o", "r", "d">>

\* raw items: every stat absent (0), a number, or no number
RawItems ==
    {Clip("x1", None, <<"a", "n", "n">>, <<>>, <<>>, suggest, music,
          Stats(plays, views, likes, comments, shares)) :
        plays \in {0, 100, NonNumeric}, views \in {0, 50},
        likes \in {0, 10, NonNumeric}, comments \in {0, 2, NonNumeric},
        shares \in {0, 1, NonNumeric},
        suggest \in {<<>>, <<Word>>, << <<" ">> >>}, music \in {<<>>, <<"7">>}}

InitExtract ==
    /\ fn = "extract_video"
    /\ args \in RawItems
    /\ returned = NotReturned
    /\ MergeIdle /\ SeedIdle /\ TrendingIdle /\ CollectIdle /\ MainIdle /\ NoCallYet

\* lines 260-329
ExtractCall ==
    /\ fn = "extract_video"
    /\ ~returned.done
    /\ returned' = Returned(extract_video(args, <<"trending">>))
    /\ UNCHANGED <<fn, args, mergeVars, seedVars, trendingVars, collectVars, mainVars, paceVars>>

NextExtract == ExtractCall

SpecExtract == InitExtract /\ [][NextExtract]_vars

-----------------------------------------------------------------------------
(* Claims about score_base *)

\* the views of a raw item: the play count, else the view count
ViewsOf(raw) == IF raw.stats.playCount # 0 THEN raw.stats.playCount ELSE raw.stats.viewCount

NoViews(raw) == ViewsOf(raw) = 0 \/ ViewsOf(raw) = NonNumeric

\* 2 if the row has suggest words plus 1 if the raw item has a music id
FlagsOf(raw, row) ==
    (IF Len(row.suggest_words) > 0 THEN 2 ELSE 0) + (IF Len(raw.music_id) > 0 THEN 1 ELSE 0)

\* weight * stat / views, in views-ths, 0 for a stat that is no number
Term(weight, stat, views) == IF stat = NonNumeric THEN 0 ELSE weight * stat

SameFrac(a, b) == a.num * b.den = b.num * a.den

\* C16: for a raw item whose views are 0, missing or no number, score_base
\* is 2 if there are suggest words plus 1 if there is a music id; a ratio
\* with an operand that is no number contributes 0.
C16_RatioSafety ==
    returned.done =>
        LET row == returned.value
            likes == IF args.stats.diggCount # 0 THEN args.stats.diggCount
                     ELSE args.stats.likeCount
        IN IF NoViews(args)
           THEN SameFrac(row.score_base, [num |-> FlagsOf(args, row), den |-> 1])
           ELSE SameFrac(row.score_base,
                         [num |-> Term(4, args.stats.shareCount, ViewsOf(args))
                                  + Term(3, args.stats.commentCount, ViewsOf(args))
                                  + Term(1, likes, ViewsOf(args))
                                  + FlagsOf(args, row) * ViewsOf(args),
                          den |-> ViewsOf(args)])

\* no views at all, likes, comments and shares there, suggest words and music
C16_Witness ==
    /\ returned.done
    /\ args.stats.playCount = 0 /\ args.stats.viewCount = 0
    /\ args.stats.diggCount = 10 /\ args.stats.commentCount = 2 /\ args.stats.shareCount = 1
    /\ returned.value.score_base = [num |-> 3, den |-> 1]


-----------------------------------------------------------------------------
(* main: the items of the snapshot *)

\* every row the run collected, in collection order
Collected == trending_rows \o later_rows.account \o later_rows.hashtag \o later_rows.sound

CollectedIds == {Collected[i].id : i \in DOMAIN Collected} \ {None}

\* C17: the items of the snapshot are the merged corpus, one item per id
\* collected, each with a score, in non-increasing order of score.
C17_ItemsSortedByScore ==
    pc = "done" =>
        /\ output.items = merged
        /\ {output.items[i].id : i \in DOMAIN output.items} = CollectedIds
        /\ Len(output.items) = Cardinality(CollectedIds)
        /\ \A i \in DOMAIN output.items : "score" \in output.items[i].keys
        /\ \A i \in 1..(Len(output.items) - 1) :
              output.items[i].score >= output.items[i + 1].score

\* a snapshot of two items whose order is not the order of collection
C17_Witness ==
    /\ pc = "done"
    /\ Len(output.items) = 2
    /\ output.items[1].score > output.items[2].score
    /\ output.items[1].id = trending_rows[2].id
    /\ later_rows.account # <<>>


-----------------------------------------------------------------------------
(* The pool-level score *)

\* the author is in the set whatever the case of either
AccountBonusAnyCase(r, big) ==
    IF r.author # <<>> /\ \E b \in big : lower(b) = lower(r.author) THEN 1 ELSE 0

\* score_base + min(3.0, 0.5 * rare hashtags) + sound bonus + account bonus,
\* rounded, in ten-thousandths
ScoreWith(rs, r, accountBonus) ==
    Round4(FracAdd(r.score_base,
                   Frac(Min(6, Cardinality(RareTags(rs, r)))
                        + 2 * SoundBonus(rs, r) + 2 * accountBonus, 2)))

\* the call changed no field other than score
OnlyScoreSet ==
    /\ Len(returned.value) = Len(args.rows)
    /\ \A i \in DOMAIN args.rows :
          /\ "score" \in returned.value[i].keys
          /\ [returned.value[i] EXCEPT !.score = args.rows[i].score,
                                       !.keys = args.rows[i].keys] = args.rows[i]

-----------------------------------------------------------------------------
(* main: the pacing of the platform calls *)

FetchKinds == {"trending", "account", "hashtag", "sound"}

\* the trending pulls and unit fetches issued with no sleep since the
\* platform call before them
UnpacedFetches == SelectSeq(unpaced, LAMBDA c : c[1] \in FetchKinds)

\* C19: no trending pull and no account, hashtag or sound fetch is issued
\* without a pacing delay since the platform call before it, and the delay
\* that follows each of them is the one inter-call delay.
C19_Pacing ==
    /\ UnpacedFetches = <<>>
    /\ pc \in {"trending", "seed", "accounts", "hashtags", "sounds"} =>
          last_delay \in {"start", "none", "SLEEP_BETWEEN_REQUESTS"}


-----------------------------------------------------------------------------
(* main: the privileged accounts of the scorer *)

\* C20: every creator handle that the seed expansion selected from trending
\* is in the reloaded account list, and every merged record by such a
\* creator has the account bonus in its score.
C20_CreatorsPrivileged ==
    pc \in {"report", "done"} =>
        /\ Range(seeds.creators) \subseteq Range(lists.accounts)
        /\ \A i \in DOMAIN merged :
              lower(merged[i].author) \in Range(seeds.creators) =>
                  merged[i].score = ScoreWith(merged, merged[i], 1)


====
